---------------------------- MODULE Spec2Model ----------------------------
(***************************************************************************)
(* kg-pg-mcp: the embedding batcher (embedder.py), the chunker             *)
(* (chunker.py) and the ingestion / search / delete tools (server.py),     *)
(* modelled as cooperative tasks that suspend only where the code awaits   *)
(* the embedding service, the progress sink or the database.               *)
(***************************************************************************)
EXTENDS Integers, Sequences, FiniteSets, TLC

(* ------------------------------ bounds -------------------------------- *)
\* longest input list handed to embed_texts by a direct caller
MaxTexts == 3
\* most documents in the store that the filtered searches run against
MaxStored == 2
\* largest configured settings.embedding_batch_size explored
MaxBatch == 2
\* largest ChunkerConfig.chunk_size explored
MaxChunkSize == 3
\* most pieces a text handed to Chunker.chunk by a direct caller is made of
MaxPieces == 4
\* how many document ids are drawn in one history, the one of the document
\* an earlier run ingested included
MaxDocs == 2
\* largest limit handed to search
MaxLimit == 2
\* most pieces a token window handed to the boundary snapping is made of
MaxSnapPieces == 5

\* the tasks (requests) that may run concurrently on the one event loop
Tasks == {"t1", "t2"}

\* texts are sequences of characters
TextPool == {<<"a">>, <<"b">>}

VARIABLES
    embedding_model, \* settings.embedding_model
    model,          \* Embedder.model
    batch_size,     \* Embedder.batch_size (settings.embedding_batch_size)
    chunk_size,     \* ChunkerConfig.chunk_size
    chunk_overlap,  \* ChunkerConfig.chunk_overlap
    op,             \* op[t]: the operation task t runs, "idle" when none
    frame,          \* frame[t]: arguments and locals of the tool task t runs
    call,           \* call[t]: the locals of task t's embed_texts call
    sink,           \* sink[t]: the progress sink handed to task t's operation
    documents,      \* committed rows of kb_documents
    kb_chunks,      \* committed rows of kb_chunks
    next_id,        \* how many document ids have been drawn
    ctext,          \* the text handed to Chunker.chunk by a direct caller
    cout,           \* what that chunk call returned
    cpc             \* "ready" before that chunk call, "done" after

cfgVars == <<embedding_model, model, batch_size, chunk_size, chunk_overlap>>
dbVars == <<documents, kb_chunks, next_id>>
chunkVars == <<ctext, cout, cpc>>
vars == <<embedding_model, model, batch_size, chunk_size, chunk_overlap, op,
          frame, call, sink, documents, kb_chunks, next_id, ctext, cout, cpc>>

(* ------------------------------ helpers ------------------------------- *)
Min(a, b) == IF a <= b THEN a ELSE b

RECURSIVE Count(_, _)
Count(s, ch) ==
    IF s = <<>> THEN 0
    ELSE (IF Head(s) = ch THEN 1 ELSE 0) + Count(Tail(s), ch)

\* all sequences over S of length 0..n
SeqsUpTo(S, n) == UNION {[1..k -> S] : k \in 0..n}

\* the permutations of 1..n, as sequences
Perms(n) == {p \in [1..n -> 1..n] : \A i, j \in 1..n : p[i] = p[j] => i = j}

(* ------------------------- embedding service -------------------------- *)
\* The vector the service computes for a text: a deterministic stub with
\* one direction per letter balance (never the zero vector).
Vec(text) ==
    <<Count(text, "a") - Count(text, "b"),
      1 + Len(text) - Count(text, "a") - Count(text, "b")>>

\* response.data of embeddings.create: one item per input, tagged with the
\* input's index within the request, delivered in the order perm.
ResponseData(input, perm) ==
    [k \in 1..Len(input) |->
        [index |-> perm[k] - 1, embedding |-> Vec(input[perm[k]])]]

(* ------------------------------ Embedder ------------------------------ *)
\* sorted(response.data, key=lambda x: x.index): insertion into a sorted list
RECURSIVE InsertByIndex(_, _)
InsertByIndex(item, sorted) ==
    IF sorted = <<>> THEN <<item>>
    ELSE IF item.index < Head(sorted).index THEN <<item>> \o sorted
    ELSE <<Head(sorted)>> \o InsertByIndex(item, Tail(sorted))

SortedByIndexUnsortedMutant(data) == data

RECURSIVE SortedByIndex(_)
SortedByIndex(data) ==
    IF data = <<>> THEN <<>>
    ELSE InsertByIndex(data[Len(data)],
                       SortedByIndex(SubSeq(data, 1, Len(data) - 1)))

\* _embed_batch after the await: sort by index, keep the embeddings
embed_batch_result(data) ==
    LET sorted_data == SortedByIndex(data)
    IN  [k \in 1..Len(sorted_data) |-> sorted_data[k].embedding]

\* texts[i : i + self.batch_size]
BatchSliceShortMutant(texts, i) ==
    SubSeq(texts, i + 1, Min(i + batch_size, Len(texts)) - 1)

BatchSlice(texts, i) == SubSeq(texts, i + 1, Min(i + batch_size, Len(texts)))

NoCall ==
    [pc |-> "none", texts |-> <<>>, progress |-> FALSE, single |-> FALSE,
     i |-> 0, all_embeddings |-> <<>>, completed |-> 0, result |-> <<>>,
     sent |-> <<>>, outstanding |-> {}, shuffled |-> FALSE,
     failed |-> FALSE, sink_failed |-> FALSE]

\* MODEL_NATIVE_DIMENSIONS of config.py
MODEL_NATIVE_DIMENSIONS ==
    [m \in {"text-embedding-3-small", "text-embedding-3-large",
            "text-embedding-ada-002"} |->
        IF m = "text-embedding-3-large" THEN 3072 ELSE 1536]

\* pgvector HNSW/IVFFlat index limit
MAX_INDEX_DIMENSIONS == 2000

\* MODEL_NATIVE_DIMENSIONS.get(m, 1536)
NativeDimensionsOf(m) ==
    IF m \in DOMAIN MODEL_NATIVE_DIMENSIONS THEN MODEL_NATIVE_DIMENSIONS[m]
    ELSE 1536

\* settings.native_dimensions: of the configured model
native_dimensions == NativeDimensionsOf(embedding_model)

\* settings.embedding_dimensions
embedding_dimensions == Min(native_dimensions, MAX_INDEX_DIMENSIONS)

\* Embedder.dimensions, set by __init__
dimensions == embedding_dimensions

\* Embedder() of get_embedder: no model given, the configured one is used
DefaultEmbedder ==
    /\ embedding_model = "text-embedding-3-small"
    /\ model = embedding_model

\* the keyword arguments _embed_batch calls embeddings.create with
embed_batch_kwargs(texts) ==
    IF dimensions # native_dimensions
    THEN [input |-> texts, model |-> model, dimensions |-> dimensions]
    ELSE [input |-> texts, model |-> model]

\* The request of one batch goes out: the call suspends in embeddings.create
IssueRequest(c, batch) ==
    [c EXCEPT !.pc = "inflight",
              !.sent = Append(@, embed_batch_kwargs(batch)),
              !.outstanding = @ \cup {Len(c.sent)}]

\* embed_texts from its entry up to its first suspension
embed_texts_begin(texts, progress) ==
    LET c == [NoCall EXCEPT !.texts = texts, !.progress = progress]
    IN  IF texts = <<>> THEN [c EXCEPT !.pc = "returned"]
        ELSE IF Len(texts) <= batch_size
             THEN IssueRequest([c EXCEPT !.single = TRUE], texts)
        \* range(0, total, 0) raises ValueError
        ELSE IF batch_size = 0 THEN [c EXCEPT !.pc = "raised"]
        \* range(0, total, step) with a negative step is empty
        ELSE IF batch_size < 0 THEN [c EXCEPT !.pc = "returned"]
        ELSE IssueRequest(c, BatchSlice(texts, 0))

\* the for loop's next iteration, or the return after the last one
NextIteration(c) ==
    LET i2 == c.i + batch_size
    IN  IF i2 < Len(c.texts)
        THEN IssueRequest([c EXCEPT !.i = i2], BatchSlice(c.texts, i2))
        ELSE [c EXCEPT !.pc = "returned", !.result = c.all_embeddings]

\* the code that runs once the sink accepted the report (or none was given)
AfterProgress(c) ==
    IF c.single THEN [c EXCEPT !.pc = "returned"] ELSE NextIteration(c)

\* the response of the batch in flight arrives; runs to the next suspension
OnResponse(c, data) ==
    LET embeddings == embed_batch_result(data)
        got == [c EXCEPT !.outstanding = {}]
        c2 == IF c.single
              THEN [got EXCEPT !.result = embeddings]
              ELSE [got EXCEPT
                      !.all_embeddings = @ \o embeddings,
                      !.completed = @ + Len(BatchSlice(c.texts, c.i))]
    IN  IF c.progress THEN [c2 EXCEPT !.pc = "progress"]
        ELSE AfterProgress(c2)

\* an exception raised at the await in flight leaves embed_texts at once
OnRaisePartialMutant(c) ==
    [c EXCEPT !.pc = "returned", !.result = c.all_embeddings,
              !.outstanding = {}]

OnRaise(c) ==
    [c EXCEPT !.pc = "raised", !.result = <<>>, !.outstanding = {}]

\* the amount handed to progress.increment after a response
ProgressAmountFullBatchMutant(c) == IF c.single THEN Len(c.texts) ELSE batch_size

ProgressAmount(c) ==
    IF c.single THEN Len(c.texts) ELSE Len(BatchSlice(c.texts, c.i))

NoSink == [total |-> 0, current |-> 0, message |-> "none"]


(* ------------------------------ Chunker ------------------------------- *)
\* the characters texts are made of
Chars == {"#", " ", "\n", "a", "."}

\* section_heading = None
NoHeading == <<"None">>

\* str.strip() and the regex class \s
IsWs(c) == c \in {" ", "\n"}

RECURSIVE LStrip(_)
LStrip(s) == IF s # <<>> /\ IsWs(Head(s)) THEN LStrip(Tail(s)) ELSE s

RECURSIVE RStrip(_)
RStrip(s) ==
    IF s # <<>> /\ IsWs(s[Len(s)]) THEN RStrip(SubSeq(s, 1, Len(s) - 1)) ELSE s

Strip(s) == RStrip(LStrip(s))

\* self._encoding.encode: a byte-pair tokenizer that merges a space with the
\* letter after it and a paragraph break into one token each
MergedPairs == {<<" ", "a">>, <<"\n", "\n">>}

RECURSIVE Encode(_)
Encode(s) ==
    IF s = <<>> THEN <<>>
    ELSE IF Len(s) >= 2 /\ SubSeq(s, 1, 2) \in MergedPairs
         THEN <<SubSeq(s, 1, 2)>> \o Encode(SubSeq(s, 3, Len(s)))
         ELSE <<SubSeq(s, 1, 1)>> \o Encode(Tail(s))

\* self._encoding.decode
RECURSIVE Decode(_)
Decode(tokens) ==
    IF tokens = <<>> THEN <<>> ELSE Head(tokens) \o Decode(Tail(tokens))

count_tokens(text) == Len(Encode(text))

\* str.rfind(sub): the highest 0-based index where sub starts, else -1
RFind(text, sub) ==
    LET hits == {k \in 0..(Len(text) - Len(sub)) :
                    SubSeq(text, k + 1, k + Len(sub)) = sub}
    IN  IF hits = {} THEN -1
        ELSE CHOOSE k \in hits : \A j \in hits : j <= k

\* the sentence separators, in the order the loop tries them ("!" and "?"
\* are not among Chars, so ". " and ".\n" are the ones that can occur)
SentenceSeps == <<<<".", " ">>, <<".", "\n">>, <<"!", " ">>, <<"?", " ">>>>

RECURSIVE SnapToSentence(_, _)
SnapToSentence(text, k) ==
    IF k > Len(SentenceSeps) THEN text
    ELSE LET last_sep == RFind(text, SentenceSeps[k])
         IN  IF last_sep > Len(text) \div 2
             THEN SubSeq(text, 1, last_sep + 1)
             ELSE SnapToSentence(text, k + 1)

snap_to_boundary(text) ==
    LET last_para == RFind(text, <<"\n", "\n">>)
    IN  IF last_para > Len(text) \div 2
        THEN SubSeq(text, 1, last_para + 1)
        ELSE SnapToSentence(text, 1)

NextStartNoOverlapMutant(start, size, overlap) == start + size

\* start += self.config.chunk_size - self.config.chunk_overlap
NextStart(start, size, overlap) == start + size - overlap

\* the windows of the while loop of _split_by_tokens, before the filter
RECURSIVE SplitLoop(_, _, _, _)
SplitLoop(tokens, start, size, overlap) ==
    IF start >= Len(tokens) THEN <<>>
    ELSE LET end == Min(start + size, Len(tokens))
             chunk_text == Decode(SubSeq(tokens, start + 1, end))
             snapped == IF end < Len(tokens) THEN snap_to_boundary(chunk_text)
                        ELSE chunk_text
         IN  <<Strip(snapped)>> \o
             SplitLoop(tokens, NextStart(start, size, overlap), size, overlap)

\* [c for c in chunks if c]
RECURSIVE NonEmpty(_)
NonEmpty(chunks) ==
    IF chunks = <<>> THEN <<>>
    ELSE (IF Head(chunks) # <<>> THEN <<Head(chunks)>> ELSE <<>>)
         \o NonEmpty(Tail(chunks))

\* _split_by_tokens returning `chunks` without the filter
split_by_tokensUnfilteredMutant(text, size, overlap) ==
    LET tokens == Encode(text)
    IN  IF Len(tokens) <= size THEN <<text>>
        ELSE SplitLoop(tokens, 0, size, overlap)

split_by_tokens(text, size, overlap) ==
    LET tokens == Encode(text)
    IN  IF Len(tokens) <= size THEN <<text>>
        ELSE NonEmpty(SplitLoop(tokens, 0, size, overlap))

\* -- heading_pattern = ^(#{1,6})\s+(.+)$ with re.MULTILINE --
\* number of consecutive "#" from position p (1-based)
RECURSIVE HashRun(_, _)
HashRun(text, p) ==
    IF p <= Len(text) /\ text[p] = "#" THEN 1 + HashRun(text, p + 1) ELSE 0

\* first position >= q that holds no whitespace (Len + 1 when none)
RECURSIVE WsRunEnd(_, _)
WsRunEnd(text, q) ==
    IF q <= Len(text) /\ IsWs(text[q]) THEN WsRunEnd(text, q + 1) ELSE q

\* last position of the line that position q is on
RECURSIVE EolEnd(_, _)
EolEnd(text, q) ==
    IF q + 1 <= Len(text) /\ text[q + 1] # "\n" THEN EolEnd(text, q + 1) ELSE q

\* The match of heading_pattern that starts at position p, if any: 1..6
\* hashes at a line start, then whitespace (\s+ also runs over newlines),
\* then the rest of one line. When the whitespace run reaches the end of
\* the text, \s+ backtracks to leave (.+) the last blank of the run.
MatchAt(text, p) ==
    LET h == HashRun(text, p)
        q == WsRunEnd(text, p + h)
        blanks == {r \in (p + h + 1)..Len(text) : text[r] = " "}
        g == IF q <= Len(text) THEN q
             ELSE IF blanks = {} THEN 0
             ELSE CHOOSE r \in blanks : \A j \in blanks : j <= r
        ok == /\ p = 1 \/ text[p - 1] = "\n"
              /\ h \in 1..6
              /\ p + h <= Len(text) /\ IsWs(text[p + h])
              /\ g # 0
    IN  IF ok
        THEN [ok |-> TRUE, start |-> p - 1, end |-> EolEnd(text, g),
              group2 |-> SubSeq(text, g, EolEnd(text, g))]
        ELSE [ok |-> FALSE, start |-> 0, end |-> 0, group2 |-> <<>>]

\* list(heading_pattern.finditer(text)), scanning from position p
RECURSIVE FindIter(_, _)
FindIter(text, p) ==
    IF p > Len(text) THEN <<>>
    ELSE LET m == MatchAt(text, p)
         IN  IF m.ok THEN <<m>> \o FindIter(text, m.end + 1)
             ELSE FindIter(text, p + 1)

\* the (heading, content) sections of the headings from the i-th match on
RECURSIVE HeadingSections(_, _, _)
HeadingSections(text, matches, i) ==
    IF i > Len(matches) THEN <<>>
    ELSE LET heading == Strip(matches[i].group2)
             start == matches[i].end
             end == IF i + 1 <= Len(matches) THEN matches[i + 1].start
                    ELSE Len(text)
             content == Strip(SubSeq(text, start + 1, end))
         IN  (IF content # <<>>
              THEN <<[heading |-> heading, text |-> content]>> ELSE <<>>)
             \o HeadingSections(text, matches, i + 1)

\* _split_by_headings without its `if not matches` fallback
split_by_headingsNoFallbackMutant(text) ==
    LET matches == FindIter(text, 1)
    IN  IF matches = <<>> THEN <<>>
        ELSE LET pre_content == Strip(SubSeq(text, 1, matches[1].start))
             IN  (IF matches[1].start > 0 /\ pre_content # <<>>
                  THEN <<[heading |-> NoHeading, text |-> pre_content]>>
                  ELSE <<>>)
                 \o HeadingSections(text, matches, 1)

split_by_headings(text) ==
    LET matches == FindIter(text, 1)
    IN  IF matches = <<>> THEN <<[heading |-> NoHeading, text |-> text]>>
        ELSE LET pre_content == Strip(SubSeq(text, 1, matches[1].start))
             IN  (IF matches[1].start > 0 /\ pre_content # <<>>
                  THEN <<[heading |-> NoHeading, text |-> pre_content]>>
                  ELSE <<>>)
                 \o HeadingSections(text, matches, 1)

\* the value of chunk_index when a section's passages have been appended
ChunkIndexAfterResetMutant(chunk_index, section_chunks) == 0

ChunkIndexAfter(chunk_index, section_chunks) ==
    chunk_index + Len(section_chunks)

\* the for loop of chunk over the sections, entered with chunk_index
RECURSIVE ChunkSections(_, _, _, _)
ChunkSections(sections, chunk_index, size, overlap) ==
    IF sections = <<>> THEN <<>>
    ELSE LET section_chunks ==
                 split_by_tokens(Head(sections).text, size, overlap)
         IN  [k \in 1..Len(section_chunks) |->
                 [content |-> section_chunks[k],
                  chunk_index |-> chunk_index + k - 1,
                  section_heading |-> Head(sections).heading,
                  token_count |-> count_tokens(section_chunks[k])]]
             \o ChunkSections(Tail(sections),
                              ChunkIndexAfter(chunk_index, section_chunks),
                              size, overlap)

chunk(text, size, overlap) ==
    IF Strip(text) = <<>> THEN <<>>
    ELSE ChunkSections(split_by_headings(text), 0, size, overlap)

(* ------------------------- embedder actions --------------------------- *)
\* a direct caller awaits embedder.embed_texts(texts, progress)
CallEmbedTexts(t) ==
    /\ op[t] = "idle"
    /\ \E texts \in SeqsUpTo(TextPool, MaxTexts), progress \in BOOLEAN :
         /\ op' = [op EXCEPT ![t] = "embed_texts"]
         /\ call' = [call EXCEPT ![t] = embed_texts_begin(texts, progress)]
         /\ sink' = [sink EXCEPT ![t] = NoSink]
    /\ UNCHANGED <<cfgVars, dbVars, chunkVars, frame>>

\* the service answers the request in flight, its items in any order
ServiceRespond(t) ==
    /\ call[t].pc = "inflight"
    /\ LET input == call[t].sent[Len(call[t].sent)].input
       IN  \E perm \in Perms(Len(input)) :
             call' = [call EXCEPT ![t] =
                        [OnResponse(call[t], ResponseData(input, perm))
                           EXCEPT !.shuffled =
                             @ \/ (\E k \in 1..Len(input) : perm[k] # k)]]
    /\ UNCHANGED <<cfgVars, dbVars, chunkVars, op, frame, sink>>

\* the request in flight fails (network or service error)
ServiceFail(t) ==
    /\ call[t].pc = "inflight"
    /\ call' = [call EXCEPT ![t] = [OnRaise(call[t]) EXCEPT !.failed = TRUE]]
    /\ UNCHANGED <<cfgVars, dbVars, chunkVars, op, frame, sink>>

\* the task is cancelled while it waits for the service or the sink
Cancel(t) ==
    /\ call[t].pc \in {"inflight", "progress"}
    /\ call' = [call EXCEPT ![t] = OnRaise(call[t])]
    /\ UNCHANGED <<cfgVars, dbVars, chunkVars, op, frame, sink>>

\* progress.increment (and, in the loop, progress.set_message) succeed
ReportProgress(t) ==
    /\ call[t].pc = "progress"
    /\ sink' = [sink EXCEPT ![t] =
                  [@ EXCEPT !.current = @ + ProgressAmount(call[t]),
                            !.message = IF call[t].single THEN @
                                        ELSE "Embedded"]]
    /\ call' = [call EXCEPT ![t] = AfterProgress(call[t])]
    /\ UNCHANGED <<cfgVars, dbVars, chunkVars, op, frame>>

\* the sink raises: in increment (nothing counted) or in set_message
SinkFail(t) ==
    /\ call[t].pc = "progress"
    /\ \E counted \in (IF call[t].single THEN {FALSE} ELSE BOOLEAN) :
         sink' = [sink EXCEPT ![t].current =
                    IF counted THEN @ + ProgressAmount(call[t]) ELSE @]
    /\ call' = [call EXCEPT ![t] =
                 [OnRaise(call[t]) EXCEPT !.sink_failed = TRUE]]
    /\ UNCHANGED <<cfgVars, dbVars, chunkVars, op, frame>>

\* the direct caller takes the returned list, or the exception
Collect(t) ==
    /\ op[t] = "embed_texts"
    /\ call[t].pc \in {"returned", "raised"}
    /\ op' = [op EXCEPT ![t] = "idle"]
    /\ call' = [call EXCEPT ![t] = NoCall]
    /\ sink' = [sink EXCEPT ![t] = NoSink]
    /\ UNCHANGED <<cfgVars, dbVars, chunkVars, frame>>

\* the arguments and locals of a tool that is not running
NoFrame ==
    [pc |-> "none", tool |-> "none", text |-> <<>>, namespace |-> "None",
     ns |-> "None", category |-> "None", metadata |-> {},
     metadata_filter |-> {}, query |-> <<>>, limit |-> 0, doc_id |-> 0,
     chunks |-> <<>>, total_tokens |-> 0, rows |-> <<>>, queries |-> 0,
     deleted |-> {}, found |-> FALSE, error |-> "none"]

\* no task runs, no chunk call was made
TasksIdle ==
    /\ op = [t \in Tasks |-> "idle"]
    /\ frame = [t \in Tasks |-> NoFrame]
    /\ call = [t \in Tasks |-> NoCall]
    /\ sink = [t \in Tasks |-> NoSink]
    /\ ctext = <<>>
    /\ cout = <<>>
    /\ cpc = "ready"

\* no task runs and the tables are empty
Quiet ==
    /\ TasksIdle
    /\ documents = {}
    /\ kb_chunks = {}
    /\ next_id = 0

\* ChunkerConfig values the chunking loop is defined for
ValidChunkerConfig ==
    /\ chunk_size \in 1..MaxChunkSize
    /\ chunk_overlap \in 0..(chunk_size - 1)

InitEmbed ==
    /\ DefaultEmbedder
    /\ batch_size \in 1..MaxBatch
    /\ chunk_size = MaxChunkSize
    /\ chunk_overlap = 0
    /\ Quiet

NextEmbed ==
    \E t \in Tasks :
        \/ CallEmbedTexts(t)
        \/ ServiceRespond(t)
        \/ ServiceFail(t)
        \/ Cancel(t)
        \/ ReportProgress(t)
        \/ SinkFail(t)
        \/ Collect(t)

SpecEmbed == InitEmbed /\ [][NextEmbed]_vars

(* ----------------- an Embedder built for any model ------------------- *)
\* the values settings.embedding_model is given: the known models and one
\* the table does not list
SettingsModels ==
    {"text-embedding-3-small", "text-embedding-3-large",
     "text-embedding-ada-002", "custom-model"}

\* the models handed to Embedder(model=...)
ConstructorModels == {"text-embedding-3-small", "text-embedding-3-large"}

\* Embedder.__init__: self.model = model or settings.embedding_model
InitModel ==
    /\ embedding_model \in SettingsModels
    /\ model \in {embedding_model} \cup ConstructorModels
    /\ batch_size = MaxBatch - 1
    /\ chunk_size = MaxChunkSize
    /\ chunk_overlap = 0
    /\ Quiet

SpecModel == InitModel /\ [][NextEmbed]_vars

(* --------------- an Embedder built from any batch size ---------------- *)
\* the values settings.embedding_batch_size is given
ConfigBatchSizes == (-1)..MaxBatch

\* Embedder.__init__ takes the setting as it is
InitBatchSize ==
    /\ DefaultEmbedder
    /\ batch_size \in ConfigBatchSizes
    /\ chunk_size = MaxChunkSize
    /\ chunk_overlap = 0
    /\ Quiet

SpecBatchSize == InitBatchSize /\ [][NextEmbed]_vars

(* ------------------------------- server -------------------------------- *)
\* settings.default_namespace
default_namespace == "default"

\* an optional argument that was not given
None == "None"

\* `if x:` / `x or default` on an optional string
Truthy(x) == x # None /\ x # ""

\* the arguments the tools are called with
Namespaces == {None, "ns1"}
Categories == {None}
Queries == {<<"a">>}

\* the documents ingested: one passage, nothing but whitespace, and two
\* headed sections "ab" and "b"
TwoSections ==
    <<"#", " ", "x", "\n", "a", "b", "\n", "#", " ", "y", "\n", "b">>

DocTexts == {<<"a">>, <<" ">>, TwoSections}

RECURSIVE SumTokens(_)
SumTokens(chunks) ==
    IF chunks = <<>> THEN 0
    ELSE Head(chunks).token_count + SumTokens(Tail(chunks))

\* KBDocument(...) of _store_document; metadata_ = metadata or parsed.metadata
\* is the caller's mapping, or the empty mapping of ParseResult
DocRow(f) ==
    [id |-> f.doc_id, namespace |-> f.ns, source_type |-> "text",
     category |-> f.category, metadata |-> f.metadata,
     token_count |-> f.total_tokens]

\* the KBChunk rows of `for chunk_result, embedding in zip(chunks, embeddings)`
ChunkRowsDefaultNamespaceMutant(f, embeddings) ==
    {[id |-> <<f.doc_id, k>>,
      document_id |-> f.doc_id,
      namespace |-> default_namespace,
      chunk_index |-> f.chunks[k].chunk_index,
      content |-> f.chunks[k].content,
      section_heading |-> f.chunks[k].section_heading,
      token_count |-> f.chunks[k].token_count,
      embedding |-> embeddings[k]] :
        k \in 1..Min(Len(f.chunks), Len(embeddings))}

ChunkRows(f, embeddings) ==
    {[id |-> <<f.doc_id, k>>,
      document_id |-> f.doc_id,
      namespace |-> f.ns,
      chunk_index |-> f.chunks[k].chunk_index,
      content |-> f.chunks[k].content,
      section_heading |-> f.chunks[k].section_heading,
      token_count |-> f.chunks[k].token_count,
      embedding |-> embeddings[k]] :
        k \in 1..Min(Len(f.chunks), Len(embeddings))}

\* -- similarity = 1 - cosine_distance(embedding, query_embedding) --
Dot(a, b) == a[1] * b[1] + a[2] * b[2]

\* the cosine num / sqrt(den2), kept exact as the pair
Similarity(a, q) == [num |-> Dot(a, q), den2 |-> Dot(a, a) * Dot(q, q)]

\* s1 >= s2 as real numbers
SimGE(s1, s2) ==
    IF s1.num >= 0 /\ s2.num < 0 THEN TRUE
    ELSE IF s1.num < 0 /\ s2.num >= 0 THEN FALSE
    ELSE IF s1.num >= 0
         THEN s1.num * s1.num * s2.den2 >= s2.num * s2.num * s1.den2
         ELSE s1.num * s1.num * s2.den2 <= s2.num * s2.num * s1.den2

\* KBDocument.metadata_.op("@>")(metadata_filter): JSONB containment of a
\* mapping of scalars, kept as its set of <<key, value>> pairs
JsonbContains(metadata, metadata_filter) == metadata_filter \subseteq metadata

\* the chunks the join and the where clauses of search keep
EligibleAnyNamespaceMutant(ns, category, metadata_filter) ==
    {c \in kb_chunks :
        \E d \in documents :
            /\ c.document_id = d.id
            /\ Truthy(category) => d.category = category
            /\ metadata_filter # {} =>
                   JsonbContains(d.metadata, metadata_filter)}

EligibleAnyCategoryMutant(ns, category, metadata_filter) ==
    {c \in kb_chunks :
        \E d \in documents :
            /\ c.document_id = d.id
            /\ c.namespace = ns
            /\ metadata_filter # {} =>
                   JsonbContains(d.metadata, metadata_filter)}

Eligible(ns, category, metadata_filter) ==
    {c \in kb_chunks :
        \E d \in documents :
            /\ c.document_id = d.id
            /\ c.namespace = ns
            /\ Truthy(category) => d.category = category
            /\ metadata_filter # {} =>
                   JsonbContains(d.metadata, metadata_filter)}

\* order_by(similarity.desc()): row a may come before row b
OrderedBeforeAscMutant(a, b, q) ==
    SimGE(Similarity(b.embedding, q), Similarity(a.embedding, q))

OrderedBefore(a, b, q) ==
    SimGE(Similarity(a.embedding, q), Similarity(b.embedding, q))

\* the orders the store may return the eligible rows in (ties in any order)
Ranked(elig, q) ==
    {s \in [1..Cardinality(elig) -> elig] :
        /\ \A i, j \in 1..Cardinality(elig) : s[i] = s[j] => i = j
        /\ \A i, j \in 1..Cardinality(elig) :
             i < j => OrderedBefore(s[i], s[j], q)}

\* .limit(limit) on a non-negative limit
LimitRows(s, limit) == SubSeq(s, 1, Min(limit, Len(s)))

\* the dict search returns for a row
ResultRow(c, q) ==
    [chunk_id |-> c.id, document_id |-> c.document_id, content |-> c.content,
     chunk_index |-> c.chunk_index, section_heading |-> c.section_heading,
     category |-> (CHOOSE d \in documents : d.id = c.document_id).category,
     similarity |-> Similarity(c.embedding, q)]

\* What search does once the query embedding is there: results[0] of
\* embed_query, then session.execute(stmt). The store rejects a negative
\* LIMIT; otherwise it returns the first `limit` rows of one ranking.
SearchOutcomes(f, result) ==
    IF result = <<>>
    THEN {[f EXCEPT !.pc = "failed", !.error = "index"]}
    ELSE IF f.limit < 0
    THEN {[f EXCEPT !.pc = "failed", !.error = "database",
                    !.queries = @ + 1]}
    ELSE {[f EXCEPT !.pc = "done", !.queries = @ + 1,
                    !.rows = [k \in 1..Len(LimitRows(s, f.limit)) |->
                                 ResultRow(s[k], result[1])]] :
            s \in Ranked(Eligible(f.ns, f.category, f.metadata_filter),
                          result[1])}

\* the arguments and locals of _store_document when it calls embed_texts
IngestFrame(text, namespace, category, metadata, id) ==
    LET chunks == chunk(text, chunk_size, chunk_overlap)
    IN  [NoFrame EXCEPT
           !.pc = "embedding", !.tool = "embed_text",
           !.text = text,
           !.namespace = namespace,
           !.ns = IF Truthy(namespace) THEN namespace ELSE default_namespace,
           !.category = category,
           !.metadata = metadata,
           !.doc_id = id,
           !.chunks = chunks,
           !.total_tokens = SumTokens(chunks)]

\* embed_text: _store_document up to its suspension in embed_texts
IngestStart(t) ==
    /\ op[t] = "idle"
    /\ next_id < MaxDocs
    /\ \E text \in DocTexts, namespace \in Namespaces, category \in Categories :
         LET f == IngestFrame(text, namespace, category, {}, next_id + 1)
         IN  /\ frame' = [frame EXCEPT ![t] = f]
             /\ sink' = [sink EXCEPT ![t] =
                   [total |-> Len(f.chunks), current |-> 0,
                    message |-> "Embedding chunks"]]
             /\ call' = [call EXCEPT ![t] =
                   embed_texts_begin(
                       [k \in 1..Len(f.chunks) |-> f.chunks[k].content], TRUE)]
    /\ op' = [op EXCEPT ![t] = "ingest"]
    /\ next_id' = next_id + 1
    /\ UNCHANGED <<cfgVars, chunkVars, documents, kb_chunks>>

\* The document rows other sessions read once session.flush() has sent
\* the INSERT: the row stays inside the open transaction until the commit.
DocumentsAfterFlushDirtyMutant(f) == documents \cup {DocRow(f)}

DocumentsAfterFlush(f) == documents

\* embed_texts returned: session.add(doc) and session.flush()
IngestFlush(t) ==
    /\ op[t] = "ingest" /\ frame[t].pc = "embedding"
    /\ call[t].pc = "returned"
    /\ frame' = [frame EXCEPT ![t].pc = "flushed", ![t].queries = @ + 1]
    /\ sink' = [sink EXCEPT ![t].message = "Storing in database"]
    /\ documents' = DocumentsAfterFlush(frame[t])
    /\ UNCHANGED <<cfgVars, chunkVars, kb_chunks, next_id, op, call>>

\* the chunk rows are added and session.commit() makes all rows visible
IngestCommit(t) ==
    /\ op[t] = "ingest" /\ frame[t].pc = "flushed"
    /\ documents' = documents \cup {DocRow(frame[t])}
    /\ kb_chunks' = kb_chunks \cup ChunkRows(frame[t], call[t].result)
    /\ frame' = [frame EXCEPT ![t].pc = "done", ![t].queries = @ + 1]
    /\ UNCHANGED <<cfgVars, chunkVars, next_id, op, call, sink>>

\* the flush or the commit fails: the session closes without a commit
IngestDbFail(t) ==
    /\ op[t] = "ingest" /\ frame[t].pc = "flushed"
    /\ frame' = [frame EXCEPT ![t].pc = "failed", ![t].error = "database"]
    /\ UNCHANGED <<cfgVars, chunkVars, dbVars, op, call, sink>>

\* embed_texts raised: the exception leaves _store_document and the tool
IngestAbort(t) ==
    /\ op[t] = "ingest" /\ frame[t].pc = "embedding"
    /\ call[t].pc = "raised"
    /\ frame' = [frame EXCEPT ![t].pc = "failed", ![t].error = "embedding"]
    /\ UNCHANGED <<cfgVars, chunkVars, dbVars, op, call, sink>>

\* search up to its suspension in embed_query, its arguments drawn from
\* the given sets
SearchStartOn(t, namespaces, categories, filters, limits) ==
    /\ op[t] = "idle"
    /\ \E query \in Queries, namespace \in namespaces,
          category \in categories, metadata_filter \in filters,
          limit \in limits :
         frame' = [frame EXCEPT ![t] =
             [NoFrame EXCEPT
                !.pc = "embedding", !.tool = "search", !.query = query,
                !.namespace = namespace,
                !.ns = IF Truthy(namespace) THEN namespace
                       ELSE default_namespace,
                !.category = category,
                !.metadata_filter = metadata_filter,
                !.limit = limit]]
    /\ call' = [call EXCEPT ![t] = embed_texts_begin(<<frame'[t].query>>, FALSE)]
    /\ op' = [op EXCEPT ![t] = "search"]
    /\ sink' = [sink EXCEPT ![t] = NoSink]
    /\ UNCHANGED <<cfgVars, chunkVars, dbVars>>

\* search without a metadata filter
SearchStart(t) ==
    SearchStartOn(t, Namespaces, Categories, {{}}, (-1)..MaxLimit)

\* the query embedding is there: the statement runs and search returns
SearchExecute(t) ==
    /\ op[t] = "search" /\ frame[t].pc = "embedding"
    /\ call[t].pc = "returned"
    /\ \E f \in SearchOutcomes(frame[t], call[t].result) :
         frame' = [frame EXCEPT ![t] = f]
    /\ UNCHANGED <<cfgVars, chunkVars, dbVars, op, call, sink>>

\* embed_query raised
SearchAbort(t) ==
    /\ op[t] = "search" /\ frame[t].pc = "embedding"
    /\ call[t].pc = "raised"
    /\ frame' = [frame EXCEPT ![t].pc = "failed", ![t].error = "embedding"]
    /\ UNCHANGED <<cfgVars, chunkVars, dbVars, op, call, sink>>

\* the dict list_documents returns for a document: its columns and
\* func.count(KBChunk.id) over the outer join
ListRow(d) ==
    [document_id |-> d.id, source_type |-> d.source_type,
     category |-> d.category, token_count |-> d.token_count,
     chunk_count |-> Cardinality({c \in kb_chunks : c.document_id = d.id})]

\* the documents the where clauses of list_documents keep
Listed(ns, category) ==
    {d \in documents :
        /\ d.namespace = ns
        /\ Truthy(category) => d.category = category}

\* list_documents: one SELECT, its rows in the order the store returns them
ListDocuments(t) ==
    /\ op[t] = "idle"
    /\ \E namespace \in Namespaces, category \in Categories :
         LET ns == IF Truthy(namespace) THEN namespace ELSE default_namespace
             listed == Listed(ns, category)
         IN  \E s \in [1..Cardinality(listed) -> listed] :
               /\ \A i, j \in 1..Cardinality(listed) : s[i] = s[j] => i = j
               /\ frame' = [frame EXCEPT ![t] =
                     [NoFrame EXCEPT
                        !.pc = "done", !.tool = "list_documents",
                        !.namespace = namespace, !.ns = ns,
                        !.category = category, !.queries = 1,
                        !.rows = [k \in 1..Cardinality(listed) |->
                                     ListRow(s[k])]]]
    /\ op' = [op EXCEPT ![t] = "list"]
    /\ UNCHANGED <<cfgVars, chunkVars, dbVars, call, sink>>

\* The ids a client can call delete_document with. A document id is a
\* uuid4 drawn when the document row is flushed and is handed out only by
\* the tools' results, after the commit: it is the id of a document that
\* was committed (and may have been deleted since) or it names nothing.
KnownIds ==
    {id \in 1..next_id :
        \A u \in Tasks :
            ~(op[u] = "ingest" /\ frame[u].doc_id = id
                /\ frame[u].pc \in {"embedding", "flushed"})}

\* another open transaction has deleted rows this statement targets: the
\* statement waits for that transaction to end
ChunkRowsLocked(t, id) ==
    \E u \in Tasks \ {t} :
        /\ op[u] = "delete" /\ frame[u].doc_id = id
        /\ frame[u].pc \in {"chunks_deleted", "document_deleted"}
        /\ frame[u].deleted # {}

DocumentRowLocked(t, id) ==
    \E u \in Tasks \ {t} :
        /\ op[u] = "delete" /\ frame[u].doc_id = id
        /\ frame[u].pc = "document_deleted" /\ frame[u].found

\* delete_document up to the end of its first statement,
\* delete(KBChunk).where(KBChunk.document_id == doc_uuid)
DeleteStart(t) ==
    /\ op[t] = "idle"
    /\ \E id \in KnownIds :
         /\ ~ChunkRowsLocked(t, id)
         /\ frame' = [frame EXCEPT ![t] =
               [NoFrame EXCEPT
                  !.pc = "chunks_deleted", !.tool = "delete_document",
                  !.doc_id = id, !.queries = 1,
                  !.deleted = {c.id : c \in {x \in kb_chunks :
                                                x.document_id = id}}]]
    /\ op' = [op EXCEPT ![t] = "delete"]
    /\ UNCHANGED <<cfgVars, chunkVars, dbVars, call, sink>>

\* the second statement, delete(KBDocument).where(KBDocument.id == doc_uuid)
DeleteDocument(t) ==
    /\ op[t] = "delete" /\ frame[t].pc = "chunks_deleted"
    /\ ~DocumentRowLocked(t, frame[t].doc_id)
    /\ frame' = [frame EXCEPT
                   ![t].pc = "document_deleted", ![t].queries = @ + 1,
                   ![t].found = \E d \in documents : d.id = frame[t].doc_id]
    /\ UNCHANGED <<cfgVars, chunkVars, dbVars, op, call, sink>>

\* the chunk rows left once the transaction of delete_document commits
ChunksAfterDeleteKeptMutant(f) == kb_chunks

ChunksAfterDelete(f) == {c \in kb_chunks : c.id \notin f.deleted}

\* session.commit() of delete_document
DeleteCommit(t) ==
    /\ op[t] = "delete" /\ frame[t].pc = "document_deleted"
    /\ documents' = {d \in documents :
                        ~(frame[t].found /\ d.id = frame[t].doc_id)}
    /\ kb_chunks' = ChunksAfterDelete(frame[t])
    /\ frame' = [frame EXCEPT ![t].pc = "done", ![t].queries = @ + 1]
    /\ UNCHANGED <<cfgVars, chunkVars, next_id, op, call, sink>>

\* the tool's result, or its error, goes back to the client
Finish(t) ==
    /\ op[t] \in {"ingest", "search", "delete", "list"}
    /\ frame[t].pc \in {"done", "failed"}
    /\ op' = [op EXCEPT ![t] = "idle"]
    /\ frame' = [frame EXCEPT ![t] = NoFrame]
    /\ call' = [call EXCEPT ![t] = NoCall]
    /\ sink' = [sink EXCEPT ![t] = NoSink]
    /\ UNCHANGED <<cfgVars, chunkVars, dbVars>>

\* the document an earlier run of the server ingested, under id 1, into
\* the default namespace, as _store_document built and committed it
EarlierFrame == IngestFrame(TwoSections, None, None, {}, 1)

EarlierRows ==
    ChunkRows(EarlierFrame,
              [k \in 1..Len(EarlierFrame.chunks) |->
                   Vec(EarlierFrame.chunks[k].content)])

\* The server is explored with one configuration: batches of one passage,
\* so that a document of two passages is embedded by two requests, and
\* sections that fit a passage. The tables are persistent: at start they
\* hold the document of the earlier run, or nothing when it was deleted.
Init ==
    /\ DefaultEmbedder
    /\ batch_size = MaxBatch - 1
    /\ chunk_size = MaxChunkSize
    /\ chunk_overlap = 0
    /\ TasksIdle
    /\ next_id = 1
    /\ \E kept \in BOOLEAN :
         /\ documents = IF kept THEN {DocRow(EarlierFrame)} ELSE {}
         /\ kb_chunks = IF kept THEN EarlierRows ELSE {}

Next ==
    \E t \in Tasks :
        \/ IngestStart(t)
        \/ IngestFlush(t)
        \/ IngestCommit(t)
        \/ IngestDbFail(t)
        \/ IngestAbort(t)
        \/ SearchStart(t)
        \/ SearchExecute(t)
        \/ SearchAbort(t)
        \/ DeleteStart(t)
        \/ DeleteDocument(t)
        \/ DeleteCommit(t)
        \/ Finish(t)
        \/ ServiceRespond(t)
        \/ ServiceFail(t)
        \/ Cancel(t)
        \/ ReportProgress(t)
        \/ SinkFail(t)

Spec == Init /\ [][Next]_vars

(* ------------------- readers next to the ingestions ------------------- *)
NextReaders == Next \/ \E t \in Tasks : ListDocuments(t)

SpecReaders == Init /\ [][NextReaders]_vars

(* ------------- a service that answers with too few items --------------- *)
\* the service answers the request in flight with the items of only the
\* first m of its inputs
ServiceRespondShort(t) ==
    /\ call[t].pc = "inflight"
    /\ LET input == call[t].sent[Len(call[t].sent)].input
       IN  \E m \in 0..(Len(input) - 1) :
             call' = [call EXCEPT ![t] =
                        OnResponse(call[t],
                                   SubSeq(ResponseData(input, [k \in 1..Len(input) |-> k]),
                                          1, m))]
    /\ UNCHANGED <<cfgVars, dbVars, chunkVars, op, frame, sink>>

NextShort == Next \/ \E t \in Tasks : ServiceRespondShort(t)

SpecShort == Init /\ [][NextShort]_vars

(* ------------------- filtered search on a given store ----------------- *)
\* what embed_text was called with for the documents of the store:
\* namespace, category and metadata in every combination
StoredCategories == {None, "foo", "bar"}
StoredMetadata == {{}, {<<"k", 2>>}, {<<"k", 1>>, <<"j", 2>>}}
StoredVariants ==
    [namespace : Namespaces, category : StoredCategories,
     metadata : StoredMetadata]

\* the text of the i-th stored document: the first is the one most similar
\* to the query, the second the least
StoredText(i) ==
    IF i = 1 THEN <<"a">> ELSE IF i = 2 THEN <<"b">> ELSE <<"a", "b">>

\* _store_document for the i-th stored document, and the rows it committed
StoredFrame(v, i) ==
    IngestFrame(StoredText(i), v.namespace, v.category, v.metadata, i)

StoredRows(v, i) ==
    ChunkRows(StoredFrame(v, i),
              [k \in 1..Len(StoredFrame(v, i).chunks) |->
                   Vec(StoredFrame(v, i).chunks[k].content)])

\* the arguments the filtered searches are called with; an empty string
\* and an empty mapping are falsy, as None is
SearchCategories == {None, "", "foo"}
SearchFilters == {{}, {<<"k", 1>>}}

\* one client searching, one call after the other
SearchAlone(t) ==
    /\ \A u \in Tasks \ {t} : op[u] = "idle"
    /\ SearchStartOn(t, Namespaces, SearchCategories, SearchFilters,
                     {MaxLimit})

\* the store holds what up to MaxStored embed_text calls committed
InitSearch ==
    /\ DefaultEmbedder
    /\ batch_size = MaxBatch - 1
    /\ chunk_size = MaxChunkSize
    /\ chunk_overlap = 0
    /\ TasksIdle
    /\ \E n \in 0..MaxStored :
         \E vs \in [1..n -> StoredVariants] :
            /\ next_id = n
            /\ documents = {DocRow(StoredFrame(vs[i], i)) : i \in 1..n}
            /\ kb_chunks = UNION {StoredRows(vs[i], i) : i \in 1..n}

NextSearch ==
    \E t \in Tasks :
        \/ SearchAlone(t)
        \/ ServiceRespond(t)
        \/ ServiceFail(t)
        \/ SearchExecute(t)
        \/ SearchAbort(t)
        \/ Finish(t)

SpecSearch == InitSearch /\ [][NextSearch]_vars

\* C11: every row a search returns is a chunk of the namespace asked for
\* whose document has exactly the category asked for, when one was given,
\* and whose document metadata holds every key-value pair of the metadata
\* filter, when one was given.
C11_FiltersAreConjunctive ==
    [][\A t \in Tasks :
         (op[t] = "search" /\ frame[t].pc = "embedding" /\ frame'[t].pc = "done")
         => \A k \in 1..Len(frame'[t].rows) :
              \E c \in kb_chunks, d \in documents :
                 /\ c.id = frame'[t].rows[k].chunk_id
                 /\ d.id = c.document_id
                 /\ frame'[t].rows[k].category = d.category
                 /\ c.namespace = (IF frame[t].namespace \in {None, ""}
                                   THEN default_namespace
                                   ELSE frame[t].namespace)
                 /\ frame[t].category \notin {None, ""} =>
                        d.category = frame[t].category
                 /\ \A pair \in frame[t].metadata_filter :
                        pair \in d.metadata]_vars

\* a search with a category and a metadata filter returned a row while the
\* namespace holds a more similar chunk of a document of another category
C11_Witness ==
    \E t \in Tasks :
        /\ op[t] = "search" /\ frame[t].pc = "done"
        /\ frame[t].category = "foo" /\ frame[t].metadata_filter # {}
        /\ frame[t].rows # <<>>
        /\ \E c \in kb_chunks, d \in documents :
             /\ d.id = c.document_id /\ c.namespace = frame[t].ns
             /\ d.category = "bar"
             /\ ~SimGE(frame[t].rows[1].similarity,
                       Similarity(c.embedding, Vec(frame[t].query)))

(* ------------------------ claims on the server ------------------------- *)
\* C12: in every committed state each stored chunk belongs to a stored
\* document; the commit of delete_document removes the document together
\* with every chunk of it, and no earlier step of delete_document changes
\* what is stored.
C12_NoOrphanChunks ==
    /\ [](\A c \in kb_chunks : \E d \in documents : d.id = c.document_id)
    /\ [][\A t \in Tasks :
            /\ (op[t] = "delete" /\ frame'[t].pc = "done"
                   /\ frame[t].pc # "done")
               => /\ \A d \in documents' : d.id # frame[t].doc_id
                  /\ \A c \in kb_chunks' : c.document_id # frame[t].doc_id
            /\ (op'[t] = "delete" /\ frame'[t].pc # "done"
                   /\ frame'[t] # frame[t])
               => UNCHANGED <<documents, kb_chunks>>]_vars

\* a document of two chunks was deleted while another document stays stored
C12_Witness ==
    \E t \in Tasks :
        /\ op[t] = "delete" /\ frame[t].pc = "done" /\ frame[t].found
        /\ Cardinality(frame[t].deleted) = 2
        /\ documents # {}

\* C22: in every committed state a chunk's namespace is the namespace of
\* its document, and no step changes the namespace of a stored document or
\* of a stored chunk.
C22_NamespacesAgree ==
    /\ [](\A c \in kb_chunks : \A d \in documents :
            c.document_id = d.id => c.namespace = d.namespace)
    /\ [][/\ \A d \in documents : \A e \in documents' :
               e.id = d.id => e.namespace = d.namespace
          /\ \A c \in kb_chunks : \A e \in kb_chunks' :
               e.id = c.id => e.namespace = c.namespace]_vars

\* a document of two chunks is stored in namespace ns1 next to the earlier
\* document of the default namespace
C22_Witness ==
    /\ \E d \in documents :
          /\ d.namespace = "ns1"
          /\ Cardinality({c \in kb_chunks : c.document_id = d.id}) = 2
    /\ \E d \in documents : d.namespace = default_namespace

\* the sum of the token_count of a set of chunk rows
RECURSIVE SumRowTokens(_)
SumRowTokens(rows) ==
    IF rows = {} THEN 0
    ELSE LET c == CHOOSE x \in rows : TRUE
         IN  c.token_count + SumRowTokens(rows \ {c})

\* C23: the token_count of every stored document is the sum of the
\* token_count of the chunk rows stored for it.
C23_TokenCountIsSumOfChunks ==
    \A d \in documents :
        d.token_count =
            SumRowTokens({c \in kb_chunks : c.document_id = d.id})

\* C13: every stored document has at least one stored chunk (so an
\* ingestion of empty or whitespace-only text commits no document row).
C13_EveryDocumentHasAChunk ==
    \A d \in documents : \E c \in kb_chunks : c.document_id = d.id

\* C3: the commit of an ingestion stores as many chunk rows as chunk
\* returned passages, passage i with the embedding of passage i's content,
\* whatever number of vectors the embedding service returned.
C3_CommitStoresEveryPassage ==
    [][\A t \in Tasks :
         (op[t] = "ingest" /\ frame[t].pc = "flushed" /\ frame'[t].pc = "done")
         => LET rows == {c \in kb_chunks' : c.document_id = frame[t].doc_id}
            IN  /\ Cardinality(rows) = Len(frame[t].chunks)
                /\ \A k \in 1..Len(frame[t].chunks) :
                     \E c \in rows :
                        /\ c.chunk_index = frame[t].chunks[k].chunk_index
                        /\ c.content = frame[t].chunks[k].content
                        /\ c.embedding = Vec(frame[t].chunks[k].content)]_vars

\* the rows stored under the id an ingestion drew
RowsOf(id) ==
    {d \in documents : d.id = id} \cup {c \in kb_chunks : c.document_id = id}

\* C4: once an embedding request of an ingestion has failed, the ingestion
\* can only end in error; it never commits a document row or a chunk row,
\* and none of its steps changes the stored documents and chunks.
C4_FailedEmbeddingStoresNothing ==
    /\ [](\A t \in Tasks :
            (op[t] = "ingest" /\ call[t].failed) =>
                /\ frame[t].pc \in {"embedding", "failed"}
                /\ RowsOf(frame[t].doc_id) = {})
    /\ [][\A t \in Tasks :
            (op[t] = "ingest" /\ call'[t].failed
               /\ (call'[t] # call[t] \/ frame'[t] # frame[t]))
            => UNCHANGED <<documents, kb_chunks>>]_vars

\* the second request of a two-passage document failed after the first
\* succeeded, the ingestion ended in error, an earlier document is stored
C4_Witness ==
    \E t \in Tasks :
        /\ op[t] = "ingest" /\ call[t].failed /\ frame[t].pc = "failed"
        /\ Len(frame[t].chunks) = 2 /\ Len(call[t].all_embeddings) = 1
        /\ documents # {}

\* C5: every row search returns is a stored chunk whose namespace is the
\* namespace asked for (the default namespace when none was given).
C5_NamespaceIsolation ==
    [][\A t \in Tasks :
         (op[t] = "search" /\ frame[t].pc = "embedding" /\ frame'[t].pc = "done")
         => LET want == IF frame[t].namespace = None THEN default_namespace
                        ELSE frame[t].namespace
            IN  \A k \in 1..Len(frame'[t].rows) :
                  \E c \in kb_chunks :
                     /\ c.id = frame'[t].rows[k].chunk_id
                     /\ c.namespace = want]_vars

\* a search returned rows while both namespaces hold chunks of equal content
C5_Witness ==
    \E t \in Tasks :
        /\ op[t] = "search" /\ frame[t].pc = "done" /\ frame[t].rows # <<>>
        /\ \E c1, c2 \in kb_chunks :
             /\ c1.namespace = "ns1" /\ c2.namespace = default_namespace
             /\ c1.content = c2.content

\* C9: a search with limit <= 0 sends no statement to the store, does not
\* end in a store error, and what it returns is the empty list.
C9_NonPositiveLimitIsNoOp ==
    \A t \in Tasks :
        (op[t] = "search" /\ frame[t].limit <= 0) =>
            /\ frame[t].queries = 0
            /\ frame[t].error # "database"
            /\ frame[t].pc = "done" => frame[t].rows = <<>>

\* C10: for limit > 0 search returns min(limit, number of eligible chunks)
\* rows, each an eligible chunk with its similarity to the query vector, in
\* non-increasing similarity; no eligible chunk left out is more similar
\* than a returned one; with no eligible chunk the result is empty.
C10_TopKBySimilarity ==
    [][\A t \in Tasks :
         (op[t] = "search" /\ frame[t].pc = "embedding" /\ frame'[t].pc = "done"
            /\ frame[t].limit > 0)
         => LET q == Vec(frame[t].query)
                rows == frame'[t].rows
                elig == {c \in kb_chunks :
                           /\ c.namespace = frame[t].ns
                           /\ \E d \in documents :
                                /\ d.id = c.document_id
                                /\ Truthy(frame[t].category) =>
                                       d.category = frame[t].category}
                returned == {rows[k].chunk_id : k \in 1..Len(rows)}
            IN  /\ Len(rows) = Min(frame[t].limit, Cardinality(elig))
                /\ Cardinality(returned) = Len(rows)
                /\ \A k \in 1..Len(rows) :
                     \E c \in elig :
                        /\ c.id = rows[k].chunk_id
                        /\ rows[k].similarity = Similarity(c.embedding, q)
                /\ \A i, j \in 1..Len(rows) :
                     i < j => SimGE(rows[i].similarity, rows[j].similarity)
                /\ \A c \in elig :
                     c.id \notin returned =>
                        \A k \in 1..Len(rows) :
                           SimGE(rows[k].similarity, Similarity(c.embedding, q))]_vars

\* limit 2 returned two rows of strictly decreasing similarity out of at
\* least three chunks of the namespace
C10_Witness ==
    \E t \in Tasks :
        /\ op[t] = "search" /\ frame[t].pc = "done" /\ frame[t].limit = 2
        /\ Len(frame[t].rows) = 2
        /\ ~SimGE(frame[t].rows[2].similarity, frame[t].rows[1].similarity)
        /\ Cardinality({c \in kb_chunks : c.namespace = frame[t].ns}) >= 3

\* the ids of the documents the rows a reader got back are about
ObservedIds(t) ==
    IF op[t] \in {"search", "list"}
    THEN {frame[t].rows[k].document_id : k \in 1..Len(frame[t].rows)}
    ELSE {}

\* C20: while an ingestion has not committed, the store shows no row of it
\* and no search or list_documents has a row of it; its commit adds its
\* document row and one chunk row per passage, each with its embedding, in
\* one step, and no other step of it changes the store; a list_documents
\* that shows its document counts all its chunks.
C20_VisibleTogetherAtCommit ==
    /\ [](\A u \in Tasks :
            (op[u] = "ingest"
               /\ frame[u].pc \in {"embedding", "flushed", "failed"}) =>
                /\ RowsOf(frame[u].doc_id) = {}
                /\ \A t \in Tasks : frame[u].doc_id \notin ObservedIds(t))
    /\ [](\A u \in Tasks :
            (op[u] = "ingest" /\ frame[u].pc = "done") =>
                /\ (\E d \in documents : d.id = frame[u].doc_id) =>
                       /\ Cardinality({c \in kb_chunks :
                              c.document_id = frame[u].doc_id})
                              = Len(frame[u].chunks)
                       /\ \A c \in kb_chunks :
                              c.document_id = frame[u].doc_id =>
                                  c.embedding = Vec(c.content)
                /\ \A t \in Tasks :
                       op[t] = "list" =>
                           \A k \in 1..Len(frame[t].rows) :
                               frame[t].rows[k].document_id = frame[u].doc_id
                               => frame[t].rows[k].chunk_count
                                      = Len(frame[u].chunks))
    /\ [][\A u \in Tasks :
            (op[u] = "ingest"
               /\ (frame'[u] # frame[u] \/ call'[u] # call[u])) =>
                IF frame[u].pc = "flushed" /\ frame'[u].pc = "done"
                THEN /\ DocRow(frame[u]) \notin documents
                     /\ documents' = documents \cup {DocRow(frame[u])}
                     /\ kb_chunks \subseteq kb_chunks'
                     /\ Cardinality(kb_chunks' \ kb_chunks)
                            = Len(frame[u].chunks)
                     /\ \A c \in kb_chunks' \ kb_chunks :
                            c.document_id = frame[u].doc_id
                ELSE UNCHANGED <<documents, kb_chunks>>]_vars

\* a list_documents returned the document of an ingestion that has not
\* returned yet, with its two chunks, next to the earlier document
C20_Witness ==
    \E u, t \in Tasks :
        /\ op[u] = "ingest" /\ frame[u].pc = "done"
        /\ Len(frame[u].chunks) = 2
        /\ op[t] = "list" /\ Len(frame[t].rows) = 2
        /\ \E k \in 1..2 :
              /\ frame[t].rows[k].document_id = frame[u].doc_id
              /\ frame[t].rows[k].chunk_count = 2

(* --------------------------- chunker harness --------------------------- *)
\* The pieces input texts are put together from: every single character,
\* a heading line, and a sentence with a blank before its full stop.
Pieces ==
    {<<c>> : c \in Chars} \cup {<<"#", " ", "a", "\n">>, <<"a", " ", ".">>}

\* the texts made of at most MaxPieces pieces
InputTexts == {Decode(ps) : ps \in SeqsUpTo(Pieces, MaxPieces)}

\* The while loop of _split_by_tokens never ends: `start` does not grow
\* when chunk_overlap >= chunk_size, and the loop is entered for a section
\* of more than chunk_size tokens.
Diverges(text, size, overlap) ==
    /\ Strip(text) # <<>>
    /\ overlap >= size
    /\ \E k \in 1..Len(split_by_headings(text)) :
          count_tokens(split_by_headings(text)[k].text) > size

\* a direct caller runs chunker.chunk(ctext)
RunChunk ==
    /\ cpc = "ready"
    /\ IF Diverges(ctext, chunk_size, chunk_overlap)
       THEN cout' = cout /\ cpc' = "looping"
       ELSE cout' = chunk(ctext, chunk_size, chunk_overlap) /\ cpc' = "done"
    /\ UNCHANGED <<cfgVars, dbVars, op, frame, call, sink, ctext>>

InitChunk ==
    /\ DefaultEmbedder
    /\ batch_size = MaxBatch
    /\ ValidChunkerConfig
    /\ op = [t \in Tasks |-> "idle"]
    /\ frame = [t \in Tasks |-> NoFrame]
    /\ call = [t \in Tasks |-> NoCall]
    /\ sink = [t \in Tasks |-> NoSink]
    /\ documents = {}
    /\ kb_chunks = {}
    /\ next_id = 0
    /\ ctext \in InputTexts
    /\ cout = <<>>
    /\ cpc = "ready"

NextChunk == RunChunk

SpecChunk == InitChunk /\ [][NextChunk]_vars

\* C15: a text that is one word (no whitespace in it) of more than
\* chunk_size tokens comes back as exactly one passage, the whole word.
C15_LongWordIsOnePassage ==
    (/\ cpc = "done"
     /\ ctext # <<>>
     /\ \A i \in 1..Len(ctext) : ~IsWs(ctext[i])
     /\ count_tokens(ctext) > chunk_size)
    => /\ Len(cout) = 1
       /\ cout[1].content = ctext

\* C16 as stated: every text of at most chunk_size tokens comes back as
\* exactly one passage whose content is the text up to leading and trailing
\* whitespace.
C16_ShortTextIsOnePassage ==
    (cpc = "done" /\ count_tokens(ctext) <= chunk_size)
    => /\ Len(cout) = 1
       /\ Strip(cout[1].content) = Strip(ctext)

\* C16 as amended: every text of at most chunk_size tokens that holds a
\* non-whitespace character and no heading line comes back as exactly one
\* passage whose content is the text up to leading and trailing whitespace.
C16_ShortPlainTextIsOnePassage ==
    (/\ cpc = "done"
     /\ count_tokens(ctext) <= chunk_size
     /\ Strip(ctext) # <<>>
     /\ FindIter(ctext, 1) = <<>>)
    => /\ Len(cout) = 1
       /\ Strip(cout[1].content) = Strip(ctext)

\* a text of exactly chunk_size tokens with blanks around it and a "#"
\* that starts no heading was returned as one passage
C16_Witness ==
    /\ cpc = "done" /\ chunk_size >= 2
    /\ count_tokens(ctext) = chunk_size
    /\ FindIter(ctext, 1) = <<>>
    /\ \E i \in 1..Len(ctext) : ctext[i] = "#"
    /\ IsWs(ctext[Len(ctext)])
    /\ Len(cout) = 1 /\ cout[1].content # <<>>

\* the k-th window (k = 0, 1, ...) that slides over a section's tokens in
\* steps of chunk_size - chunk_overlap
TokenWindow(tokens, k) ==
    SubSeq(tokens, k * (chunk_size - chunk_overlap) + 1,
           Min(k * (chunk_size - chunk_overlap) + chunk_size, Len(tokens)))

\* the numbers of the windows whose start lies inside the section
WindowNumbers(tokens) ==
    {k \in 0..Len(tokens) : k * (chunk_size - chunk_overlap) < Len(tokens)}

\* neither boundary snapping nor trimming changes the text of window k
Unaltered(tokens, k) ==
    LET w == Decode(TokenWindow(tokens, k))
    IN  /\ Strip(w) = w
        /\ \/ k * (chunk_size - chunk_overlap) + chunk_size >= Len(tokens)
           \/ snap_to_boundary(w) = w

\* windows k and k + 1 were emitted as two passages in a row of the section
\* headed h
EmittedInARow(tokens, k, h) ==
    \E m \in 1..(Len(cout) - 1) :
        /\ cout[m].content = Decode(TokenWindow(tokens, k))
        /\ cout[m + 1].content = Decode(TokenWindow(tokens, k + 1))
        /\ cout[m].section_heading = h
        /\ cout[m + 1].section_heading = h

\* the last chunk_overlap tokens of window k are the first chunk_overlap
\* tokens of window k + 1
SharesOverlap(tokens, k) ==
    LET w1 == TokenWindow(tokens, k)
        w2 == TokenWindow(tokens, k + 1)
    IN  /\ Len(w1) >= chunk_overlap
        /\ Len(w2) >= chunk_overlap
        /\ SubSeq(w1, Len(w1) - chunk_overlap + 1, Len(w1)) =
               SubSeq(w2, 1, chunk_overlap)

\* C17 as stated: in a section of more than chunk_size tokens, two windows
\* in a row that neither snapping nor trimming alters are emitted as two
\* passages in a row that share exactly chunk_overlap tokens.
C17_ConsecutivePassagesOverlap ==
    cpc = "done" =>
        \A s \in 1..Len(split_by_headings(ctext)) :
            LET sec == split_by_headings(ctext)[s]
                tokens == Encode(sec.text)
            IN  (Strip(ctext) # <<>> /\ Len(tokens) > chunk_size) =>
                \A k \in WindowNumbers(tokens) :
                    (/\ k + 1 \in WindowNumbers(tokens)
                     /\ Unaltered(tokens, k)
                     /\ Unaltered(tokens, k + 1))
                    => /\ EmittedInARow(tokens, k, sec.heading)
                       /\ SharesOverlap(tokens, k)

\* C17 as amended: the same for two windows in a row the later of which
\* holds at least chunk_overlap tokens.
C17_FullWindowsOverlap ==
    cpc = "done" =>
        \A s \in 1..Len(split_by_headings(ctext)) :
            LET sec == split_by_headings(ctext)[s]
                tokens == Encode(sec.text)
            IN  (Strip(ctext) # <<>> /\ Len(tokens) > chunk_size) =>
                \A k \in WindowNumbers(tokens) :
                    (/\ k + 1 \in WindowNumbers(tokens)
                     /\ Unaltered(tokens, k)
                     /\ Unaltered(tokens, k + 1)
                     /\ Len(TokenWindow(tokens, k + 1)) >= chunk_overlap)
                    => /\ EmittedInARow(tokens, k, sec.heading)
                       /\ SharesOverlap(tokens, k)

\* with an overlap of two tokens the first two passages differ and are the
\* first two windows of the text, unaltered
C17_Witness ==
    /\ cpc = "done" /\ chunk_overlap = 2
    /\ FindIter(ctext, 1) = <<>>
    /\ Len(Encode(ctext)) > chunk_size
    /\ Unaltered(Encode(ctext), 0) /\ Unaltered(Encode(ctext), 1)
    /\ Len(cout) >= 2
    /\ cout[1].content # cout[2].content
    /\ cout[1].content = Decode(TokenWindow(Encode(ctext), 0))
    /\ cout[2].content = Decode(TokenWindow(Encode(ctext), 1))

\* the lines of a text, without their line ends
RECURSIVE LinesOf(_)
LinesOf(text) ==
    LET ends == {p \in 1..Len(text) : text[p] = "\n"}
    IN  IF ends = {} THEN <<text>>
        ELSE LET p == CHOOSE q \in ends : \A r \in ends : q <= r
             IN  <<SubSeq(text, 1, p - 1)>>
                 \o LinesOf(SubSeq(text, p + 1, Len(text)))

\* a heading line: one to six "#" at the line start, then whitespace and
\* the heading's text on the same line (a line of markers alone is a
\* heading with no text)
IsHeadingLine(line) ==
    LET h == HashRun(line, 1)
    IN  h \in 1..6 /\ (Len(line) = h \/ IsWs(line[h + 1]))

\* the trimmed text of a heading line, without its "#" markers
HeadingLabel(line) ==
    Strip(SubSeq(line, HashRun(line, 1) + 1, Len(line)))

\* the sections of a document read line by line: the text before the
\* first heading line, then one section per heading line, each with the
\* trimmed lines that follow it up to the next heading line
RECURSIVE LineSections(_, _, _)
LineSections(lines, heading, body) ==
    IF lines = <<>> THEN <<[heading |-> heading, text |-> Strip(body)]>>
    ELSE IF IsHeadingLine(Head(lines))
         THEN <<[heading |-> heading, text |-> Strip(body)]>>
              \o LineSections(Tail(lines), HeadingLabel(Head(lines)), <<>>)
         ELSE LineSections(Tail(lines), heading,
                           body \o <<"\n">> \o Head(lines))

\* C25: a document whose heading lines are each followed by a non-empty
\* body, every body (and the text before the first heading line, if any)
\* fitting chunk_size (a document without heading lines fitting it
\* untrimmed), comes back as one passage per body in source order,
\* each labelled with the trimmed text of the heading line before it, and
\* the text before the first heading line with no heading.
C25_HeadingsLabelPassages ==
    cpc = "done" =>
        LET secs == LineSections(LinesOf(ctext), NoHeading, <<>>)
            rest == Tail(secs)
            expected == (IF secs[1].text # <<>> THEN <<secs[1]>> ELSE <<>>)
                            \o rest
        IN  (/\ Strip(ctext) # <<>>
             /\ \A k \in 1..Len(rest) : rest[k].text # <<>>
             /\ count_tokens(ctext) <= chunk_size \/ rest # <<>>
             /\ \A k \in 1..Len(expected) :
                    count_tokens(expected[k].text) <= chunk_size)
            => /\ Len(cout) = Len(expected)
               /\ \A k \in 1..Len(expected) :
                    /\ Strip(cout[k].content) = expected[k].text
                    /\ cout[k].section_heading = expected[k].heading

(* ------------------- boundary snapping of one window ----------------- *)
\* the pieces the decoded text of a token window is put together from:
\* letters, the sentence endings and a paragraph break
SnapPieces ==
    {<<"a">>, <<"a", "a", "a">>, <<".", " ">>, <<".", "\n">>, <<"!", " ">>,
     <<"?", " ">>, <<"\n", "\n">>}

WindowTexts == {Decode(ps) : ps \in SeqsUpTo(SnapPieces, MaxSnapPieces)}

\* One pass of the loop body of _split_by_tokens on the window text ctext:
\* `if end < total: chunk_text = self._snap_to_boundary(chunk_text)` and
\* `chunks.append(chunk_text.strip())`; cpc tells whether the window ends
\* before the section does.
EmitWindow ==
    /\ cpc \in {"window", "last_window"}
    /\ LET snapped == IF cpc = "window" THEN snap_to_boundary(ctext)
                      ELSE ctext
       IN  cout' = <<[content |-> Strip(snapped)]>>
    /\ cpc' = IF cpc = "window" THEN "emitted" ELSE "last_emitted"
    /\ UNCHANGED <<cfgVars, dbVars, op, frame, call, sink, ctext>>

InitSnap ==
    /\ DefaultEmbedder
    /\ batch_size = MaxBatch
    /\ chunk_size = MaxChunkSize
    /\ chunk_overlap = 0
    /\ op = [t \in Tasks |-> "idle"]
    /\ frame = [t \in Tasks |-> NoFrame]
    /\ call = [t \in Tasks |-> NoCall]
    /\ sink = [t \in Tasks |-> NoSink]
    /\ documents = {}
    /\ kb_chunks = {}
    /\ next_id = 0
    /\ ctext \in WindowTexts
    /\ cout = <<>>
    /\ cpc \in {"window", "last_window"}

NextSnap == EmitWindow

SpecSnap == InitSnap /\ [][NextSnap]_vars

\* the positions past the midpoint of the text where a sentence ending
\* occurs last
LateSentenceEnds(text) ==
    {p \in {RFind(text, SentenceSeps[k]) : k \in 1..Len(SentenceSeps)} :
        p > Len(text) \div 2}

\* C24: a window that is not the last of its section is emitted up to its
\* last paragraph break when that break lies past the midpoint, otherwise
\* up to the last sentence ending of any kind that lies past the midpoint,
\* otherwise whole; the last window is emitted whole (all of them trimmed).
C24_SnapsToLastBoundary ==
    /\ cpc = "emitted" =>
         LET last_para == RFind(ctext, <<"\n", "\n">>)
             ends == LateSentenceEnds(ctext)
         IN  cout[1].content =
                 IF last_para > Len(ctext) \div 2
                 THEN Strip(SubSeq(ctext, 1, last_para))
                 ELSE IF ends # {}
                      THEN Strip(SubSeq(ctext, 1,
                               (CHOOSE p \in ends : \A q \in ends : q <= p)
                                   + 1))
                      ELSE Strip(ctext)
    /\ cpc = "last_emitted" => cout[1].content = Strip(ctext)

(* ---------------- sections of sentences and paragraphs ---------------- *)
\* chunk sizes that leave a window room for a boundary past its midpoint
\* with text after it
SplitSizes == (2 * MaxChunkSize)..(2 * MaxChunkSize + 1)

\* Chunker(ChunkerConfig(chunk_size, chunk_overlap)) and a text of
\* sentences and paragraphs, without headings
InitSplit ==
    /\ DefaultEmbedder
    /\ batch_size = MaxBatch
    /\ chunk_size \in SplitSizes
    /\ chunk_overlap \in 0..1
    /\ op = [t \in Tasks |-> "idle"]
    /\ frame = [t \in Tasks |-> NoFrame]
    /\ call = [t \in Tasks |-> NoCall]
    /\ sink = [t \in Tasks |-> NoSink]
    /\ documents = {}
    /\ kb_chunks = {}
    /\ next_id = 0
    /\ ctext \in WindowTexts
    /\ cout = <<>>
    /\ cpc = "ready"

SpecSplit == InitSplit /\ [][NextChunk]_vars

\* token j (1-based) of the section is in the passage emitted for some
\* window: the passage is the trimmed text of the window cut no earlier
\* than the end of token j
TokenEmitted(tokens, j) ==
    \E k \in WindowNumbers(tokens) :
        LET start == k * (chunk_size - chunk_overlap)
            wtext == Decode(TokenWindow(tokens, k))
            upto == Len(Decode(SubSeq(tokens, start + 1, j)))
        IN  /\ start < j
            /\ j <= start + chunk_size
            /\ \E n \in upto..Len(wtext), m \in 1..Len(cout) :
                   cout[m].content = Strip(SubSeq(wtext, 1, n))

\* C28: of a section of more than chunk_size tokens every token that is
\* not whitespace is in at least one emitted passage.
C28_NoTokenIsDropped ==
    cpc = "done" =>
        LET tokens == Encode(ctext)
        IN  (FindIter(ctext, 1) = <<>> /\ Len(tokens) > chunk_size) =>
                \A j \in 1..Len(tokens) :
                    Strip(tokens[j]) # <<>> => TokenEmitted(tokens, j)

(* ------------------------ source code as input ----------------------- *)
\* the pieces a source file is put together from: a letter, a blank, a
\* line end and a comment line "# a"
CodePieces == {<<"a">>, <<" ">>, <<"\n">>, <<"#", " ", "a">>}

CodeTexts == {Decode(ps) : ps \in SeqsUpTo(CodePieces, MaxPieces)}

\* the language names EXT_TO_LANG gives for ".c" and ".go", and "unknown"
Languages ==
    {<<"c">>, <<"g", "o">>, <<"u", "n", "k", "n", "o", "w", "n">>}

\* the fence of three backquotes; a backquote is written "~" here, since
\* a backquote inside a string does not parse
Fence == <<"~", "~", "~">>

\* wrapped = f"```{language}\n{content}\n```"
parse_code(content, language) ==
    Fence \o language \o <<"\n">> \o content \o <<"\n">> \o Fence

\* chunk sizes around the token count of a wrapped source file
CodeSizes == {4 * MaxChunkSize, 8 * MaxChunkSize}

\* parse_code turns the source file ctext into the text that is chunked
ParseCode ==
    /\ cpc = "source"
    /\ \E language \in Languages : ctext' = parse_code(ctext, language)
    /\ cpc' = "ready"
    /\ UNCHANGED <<cfgVars, dbVars, op, frame, call, sink, cout>>

InitCode ==
    /\ DefaultEmbedder
    /\ batch_size = MaxBatch
    /\ chunk_size \in CodeSizes
    /\ chunk_overlap = 0
    /\ op = [t \in Tasks |-> "idle"]
    /\ frame = [t \in Tasks |-> NoFrame]
    /\ call = [t \in Tasks |-> NoCall]
    /\ sink = [t \in Tasks |-> NoSink]
    /\ documents = {}
    /\ kb_chunks = {}
    /\ next_id = 0
    /\ ctext \in CodeTexts
    /\ cout = <<>>
    /\ cpc = "source"

NextCode == ParseCode \/ RunChunk

SpecCode == InitCode /\ [][NextCode]_vars

\* C30: the fenced block parse_code builds is one section without a
\* heading: no passage of it carries a heading, the passages' texts are
\* windows of the block, and a block that fits chunk_size comes back as
\* one passage holding all of it, the comment lines included.
C30_FencedCodeIsOneSection ==
    (cpc = "done" /\ SubSeq(ctext, 1, 3) = Fence) =>
        /\ \A k \in 1..Len(cout) : cout[k].section_heading = NoHeading
        /\ count_tokens(ctext) <= chunk_size =>
               /\ Len(cout) = 1
               /\ cout[1].content = ctext

(* ------------------ a chunker built from any overlap ------------------ *)
\* most tokens of overlap a ChunkerConfig is built with (and -1)
ConfigOverlaps == (-1)..MaxChunkSize

\* Chunker(config): __init__ keeps the configuration and loads the encoding
NewChunker ==
    /\ cpc = "new"
    /\ cpc' = "ready"
    /\ UNCHANGED <<cfgVars, dbVars, op, frame, call, sink, ctext, cout>>

\* a ChunkerConfig of any overlap is about to be handed to Chunker
InitConfig ==
    /\ DefaultEmbedder
    /\ batch_size = MaxBatch
    /\ chunk_size \in 1..MaxChunkSize
    /\ chunk_overlap \in ConfigOverlaps
    /\ op = [t \in Tasks |-> "idle"]
    /\ frame = [t \in Tasks |-> NoFrame]
    /\ call = [t \in Tasks |-> NoCall]
    /\ sink = [t \in Tasks |-> NoSink]
    /\ documents = {}
    /\ kb_chunks = {}
    /\ next_id = 0
    /\ ctext \in InputTexts
    /\ cout = <<>>
    /\ cpc = "new"

NextConfig == NewChunker \/ RunChunk

SpecConfig == InitConfig /\ [][NextConfig]_vars

\* C14: a Chunker whose configuration has chunk_overlap < 0 or
\* chunk_overlap >= chunk_size is never constructed: the constructor fails,
\* so no chunk call is made on it.
C14_InvalidOverlapFailsConstruction ==
    (chunk_overlap < 0 \/ chunk_overlap >= chunk_size) =>
        cpc \in {"new", "config_error"}

\* C29: on a Chunker the constructor accepted no chunk call is caught in
\* the splitting loop with a window start that does not increase.
C29_ChunkTerminates == cpc # "looping"

\* C6: the passages chunk returns carry chunk_index 0, 1, ..., n-1 in list
\* order: one counter runs over all sections, it is not reset at a section
\* boundary and it does not count a passage that was discarded as empty.
C6_ContiguousIndices ==
    cpc = "done" =>
        \A k \in 1..Len(cout) : cout[k].chunk_index = k - 1

\* the windows the splitting loop produced for the sections of ctext,
\* before the empty ones are dropped
WindowsOf(text) ==
    LET secs == split_by_headings(text)
    IN  [k \in 1..Len(secs) |->
            IF count_tokens(secs[k].text) <= chunk_size THEN <<secs[k].text>>
            ELSE SplitLoop(Encode(secs[k].text), 0, chunk_size, chunk_overlap)]

\* two sections, the first of them split into several windows one of which
\* was discarded as empty, and a passage of the second section follows
C6_Witness ==
    /\ cpc = "done"
    /\ Len(cout) >= 3
    /\ cout[1].section_heading # cout[Len(cout)].section_heading
    /\ LET w == WindowsOf(ctext)
       IN  /\ Len(w) = 2
           /\ \E k \in 1..Len(w[1]) : w[1][k] = <<>>
           /\ Len(NonEmpty(w[1])) >= 2

Ceil(n, b) == (n + b - 1) \div b

\* C1: whatever order the service returns the items of a response in, a
\* returned embed_texts call on a non-empty list yields a list as long as the
\* input whose element at position i is the vector computed for input i.
C1_OrderPreserved ==
    \A t \in Tasks :
        (call[t].pc = "returned" /\ call[t].texts # <<>>) =>
            /\ Len(call[t].result) = Len(call[t].texts)
            /\ \A i \in 1..Len(call[t].texts) :
                 call[t].result[i] = Vec(call[t].texts[i])

\* a batched call of three inputs returned after an out-of-order response
C1_Witness ==
    \E t \in Tasks :
        /\ call[t].pc = "returned" /\ call[t].shuffled /\ ~call[t].single
        /\ Len(call[t].texts) = 3
        /\ call[t].texts[1] # call[t].texts[2]

\* C2: a returned embed_texts call on n texts has issued exactly
\* ceil(n / batch_size) requests (none for n = 0, which returns the empty
\* list), and request k carries inputs k*b .. min((k+1)*b, n)-1 in order.
C2_BatchPartition ==
    \A t \in Tasks :
        call[t].pc = "returned" =>
            LET n == Len(call[t].texts)
                b == batch_size
            IN  /\ Len(call[t].sent) = Ceil(n, b)
                /\ n = 0 => call[t].result = <<>>
                /\ \A k \in 0..(Ceil(n, b) - 1) :
                     call[t].sent[k + 1].input =
                         SubSeq(call[t].texts, k * b + 1, Min((k + 1) * b, n))

\* three inputs with batch size two went out as a batch of two and one of one
C2_Witness ==
    \E t \in Tasks :
        /\ call[t].pc = "returned" /\ batch_size = 2
        /\ Len(call[t].texts) = 3 /\ Len(call[t].sent) = 2
        /\ Len(call[t].sent[2].input) = 1

\* C7: when the request of batch k fails, or the call is cancelled while it
\* is in flight, embed_texts ends by raising with no vectors returned; from
\* then on the call issues no further request (no later batch, no retry).
C7_FailureAbortsCall ==
    /\ [](\A t \in Tasks :
            call[t].pc = "raised" =>
                call[t].result = <<>> /\ call[t].outstanding = {})
    /\ [][\A t \in Tasks :
            /\ (call[t].pc = "inflight" /\ (ServiceFail(t) \/ Cancel(t))) =>
                   /\ call'[t].pc = "raised"
                   /\ call'[t].result = <<>>
                   /\ call'[t].sent = call[t].sent
            /\ call[t].pc = "raised" =>
                   \/ call'[t] = call[t]
                   \/ call'[t].pc = "none"]_vars

\* the second of three batches failed: one vector held, third never requested
C7_Witness ==
    \E t \in Tasks :
        /\ call[t].pc = "raised" /\ batch_size = 1
        /\ Len(call[t].texts) = 3
        /\ Len(call[t].all_embeddings) = 1 /\ Len(call[t].sent) = 2

\* the number of inputs whose vectors the call holds
Embedded(c) == IF c.single THEN Len(c.result) ELSE Len(c.all_embeddings)

\* C8: one embed_texts call never has more than one request in flight; a
\* request goes out only when every earlier response has been received and
\* (with a sink) reported, and the cumulative progress reported never
\* decreases within a call and never exceeds the inputs already embedded.
C8_SequentialBatches ==
    /\ [](\A t \in Tasks :
            /\ Cardinality(call[t].outstanding) <= 1
            /\ call[t].pc = "inflight" =>
                 /\ call[t].outstanding = {Len(call[t].sent) - 1}
                 /\ Embedded(call[t]) = call[t].i
                 /\ call[t].progress => sink[t].current = call[t].i
            /\ sink[t].current <= Embedded(call[t]))
    /\ [][\A t \in Tasks :
            (call[t].pc # "none" /\ call'[t].pc # "none") =>
                sink'[t].current >= sink[t].current]_vars

\* the second batch is in flight after the first batch's progress was reported
C8_Witness ==
    \E t \in Tasks :
        /\ call[t].pc = "inflight" /\ call[t].progress
        /\ Len(call[t].sent) = 2 /\ batch_size = 2
        /\ sink[t].current = 2

\* C21: with calls of embed_texts running side by side, every request a
\* call sent holds a run of that call's own inputs, in their order, the
\* vectors a call has gathered are those of its own first inputs, and a
\* returned call holds exactly the vectors of its own inputs in its order.
C21_CallsAreIndependent ==
    \A t \in Tasks :
        LET c == call[t]
        IN  /\ \A k \in 1..Len(c.sent) :
                 c.sent[k].input =
                     SubSeq(c.texts, (k - 1) * batch_size + 1,
                            Min(k * batch_size, Len(c.texts)))
            /\ \A i \in 1..Len(c.all_embeddings) :
                 c.all_embeddings[i] = Vec(c.texts[i])
            /\ c.pc = "returned" =>
                 c.result = [i \in 1..Len(c.texts) |-> Vec(c.texts[i])]

\* two calls on different inputs are both waiting for their second request
C21_Witness ==
    \E t, u \in Tasks :
        /\ t # u
        /\ call[t].pc = "inflight" /\ call[u].pc = "inflight"
        /\ Len(call[t].sent) = 2 /\ Len(call[u].sent) = 2
        /\ call[t].texts # call[u].texts
        /\ call[t].sent[2].input # call[u].sent[2].input

\* C26: every request names the Embedder's model and carries a dimension,
\* the configured target, exactly when that target differs from the native
\* dimension of the model the request names; all requests of a call are
\* alike in both.
C26_DimensionsWhenNotNative ==
    \A t \in Tasks : \A k \in 1..Len(call[t].sent) :
        LET r == call[t].sent[k]
        IN  /\ r.model = model
            /\ ("dimensions" \in DOMAIN r)
                   <=> (dimensions # NativeDimensionsOf(r.model))
            /\ "dimensions" \in DOMAIN r => r.dimensions = dimensions
            /\ DOMAIN r = DOMAIN call[t].sent[1]

\* C19: under a batch_size of zero or less embed_texts never returns
\* normally from a non-empty input.
C19_InvalidBatchSizeNeverReturns ==
    \A t \in Tasks :
        (batch_size <= 0 /\ call[t].texts # <<>>) => call[t].pc # "returned"

\* C18: a failure of the progress sink never turns into a failure of
\* embed_texts: no call is left raised by its sink.
C18_SinkFailureIsSwallowed ==
    \A t \in Tasks : ~(call[t].pc = "raised" /\ call[t].sink_failed)

=============================================================================
